---------------------------- MODULE Spec2Model ----------------------------
(***************************************************************************)
(* Block communication and cycle synchronisation of Cello's CommBlock      *)
(* (src/src/Cello/comm_CommBlock.cpp, CONFIG_USE_CHARM build).             *)
(*                                                                         *)
(* One chare per mesh block.  Entry methods (p_output, p_compute,          *)
(* x_refresh) are delivered asynchronously and in any order; each entry    *)
(* method runs to completion, so every delivery is one atomic action that  *)
(* includes all the member functions it calls directly:                    *)
(*    p_compute -> compute -> refresh -> x_refresh(self) [-> prepare]      *)
(*    x_refresh [-> prepare]                                               *)
(***************************************************************************)
EXTENDS Integers, Sequences, FiniteSets, TLC

\* ------------------------------------------------------------------ bounds
MaxNb    == 3   \* blocks along x in the topology specification
MaxCycle == 3   \* cycles an actor may compute in the protocol specification
MaxDt    == 2   \* largest value Timestep::evaluate returns
StopTime == 3   \* Stopping::stop_time()
NumMethods == 2 \* Methods registered with the Problem
MaxTypes == 2   \* particle types created with new_type
MaxAttrs == 3   \* attributes created with new_attribute, over all types

\* ------------------------------------------------------------- state
VARIABLES
  cfg,        \* shared inputs: size_ (nb), field block size (n), periodic, refresh classes (rf)
  cycle_,     \* CommBlock::cycle_  per block
  time_,      \* CommBlock::time_   per block
  dt_,        \* CommBlock::dt_     per block
  sync,       \* CommBlock::sync_refresh_ : current value of the arrival counter
  msgs,       \* x_refresh messages sent through thisProxy[index], not yet delivered
  contribs,   \* per block: contributions handed to contribute(), not yet reduced
  pout,       \* p_output callbacks of completed reductions, not yet delivered
  pcomp,      \* p_compute (cycle, time, dt) messages not yet delivered
  checkin,    \* SimulationCharm: blocks that checked in through p_output
  sim,        \* Simulation state set by update_state(): cycle, time, dt, stop
  exited,     \* the run has ended
  started,    \* per block: the block has entered its first prepare()
  nprep,      \* history: number of prepare() calls per block
  nres,       \* history: number of reduction results received per block
  nquorum,    \* history: number of times sync_refresh_.done() returned true
  narrive,    \* history: number of x_refresh() executions per block
  ghost,      \* per block and face: the buffer last stored into the ghost region
  enforced,   \* per block: the (face, axis) pairs the last prepare() enforced
  calls,      \* per block: the Method indices the last compute() invoked, in order
  nsent,      \* history: number of faces the block has sent through thisProxy[index]
  sentAtPrepare, \* history: value of nsent when the block last entered prepare()
  crashed,    \* blocks that have stopped executing entry methods (fault specification)
  nred,       \* history: number of completed reductions
  redhist,    \* history: candidate dts and stop flags that entered the last reduction
  probe,      \* result of the last topology evaluation (topology specification)
  particle    \* the ParticleDescr object (particle specification)

vars == << cfg, cycle_, time_, dt_, sync, msgs, contribs, pout, pcomp, checkin,
           sim, exited, started, nprep, nres, nquorum, narrive, ghost, enforced,
           calls, nsent, sentAtPrepare, crashed, nred, redhist, probe, particle >>

\* ------------------------------------------------------------- topology
axis_x == 0
axis_y == 1
axis_z == 2
face_lower == 0
face_upper == 1

Axes == {axis_x, axis_y, axis_z}

\* the 26 neighbour directions (fx,fy,fz)
Dirs == { d \in {-1, 0, 1} \X {-1, 0, 1} \X {-1, 0, 1} : d # <<0, 0, 0>> }

abs(x) == IF x < 0 THEN -x ELSE x

B2N(b) == IF b THEN 1 ELSE 0

MIN(a, b) == IF a < b THEN a ELSE b

\* block indices of a configuration, zero based as thisIndex.array()
BlocksOf(c) == (0 .. c.nb[1] - 1) \X (0 .. c.nb[2] - 1) \X (0 .. c.nb[3] - 1)

Blocks == BlocksOf(cfg)

\* variant of refresh_face: every class is refreshed
refresh_face_All(r) == TRUE

\* FieldDescr::refresh_face(r): 0 corners, 1 edges, 2 faces
refresh_face(r) == cfg.rf[r + 1]

\* Boundary::is_periodic()
is_periodic == cfg.periodic

\* variant of is_on_boundary: the upper face is compared with size_, not size_ - 1
is_on_boundary_OffByOne(b, ax, fc) ==
  IF fc = face_lower THEN b[ax + 1] = 0 ELSE b[ax + 1] = cfg.nb[ax + 1]

\* CommBlock::is_on_boundary : is_boundary[axis][face]
is_on_boundary(b, ax, fc) ==
  IF fc = face_lower THEN b[ax + 1] = 0 ELSE b[ax + 1] = cfg.nb[ax + 1] - 1

\* variant of determine_boundary_: the field block size is not consulted
determine_boundary_Always(ax, fc) == TRUE

\* CommBlock::determine_boundary_ : directions with a ghost layer (fxm, fxp, ...)
determine_boundary_(ax, fc) == cfg.n[ax + 1] > 1

\* variant of count_refresh_: edges gated by the face class, refresh_face(2)
count_refresh_NoClassGate(b) ==
  LET fxm == (cfg.n[1] > 1) /\ (is_periodic \/ ~ is_on_boundary(b, axis_x, face_lower))
      fxp == (cfg.n[1] > 1) /\ (is_periodic \/ ~ is_on_boundary(b, axis_x, face_upper))
      fym == (cfg.n[2] > 1) /\ (is_periodic \/ ~ is_on_boundary(b, axis_y, face_lower))
      fyp == (cfg.n[2] > 1) /\ (is_periodic \/ ~ is_on_boundary(b, axis_y, face_upper))
      fzm == (cfg.n[3] > 1) /\ (is_periodic \/ ~ is_on_boundary(b, axis_z, face_lower))
      fzp == (cfg.n[3] > 1) /\ (is_periodic \/ ~ is_on_boundary(b, axis_z, face_upper))
      faces == B2N(fxm) + B2N(fxp) + B2N(fym) + B2N(fyp) + B2N(fzm) + B2N(fzp)
      edges == B2N(fxm /\ fym) + B2N(fxm /\ fyp) + B2N(fxp /\ fym) + B2N(fxp /\ fyp)
             + B2N(fym /\ fzm) + B2N(fym /\ fzp) + B2N(fyp /\ fzm) + B2N(fyp /\ fzp)
             + B2N(fzm /\ fxm) + B2N(fzm /\ fxp) + B2N(fzp /\ fxm) + B2N(fzp /\ fxp)
      corners == B2N(fxm /\ fym /\ fzm) + B2N(fxm /\ fym /\ fzp)
               + B2N(fxm /\ fyp /\ fzm) + B2N(fxm /\ fyp /\ fzp)
               + B2N(fxp /\ fym /\ fzm) + B2N(fxp /\ fym /\ fzp)
               + B2N(fxp /\ fyp /\ fzm) + B2N(fxp /\ fyp /\ fzp)
  IN  1 + (IF refresh_face(2) THEN faces ELSE 0)
        + (IF refresh_face(2) THEN edges ELSE 0)
        + (IF refresh_face(0) THEN corners ELSE 0)

\* variant of count_refresh_: the count starts at 0, self is not counted
count_refresh_NoSelf(b) ==
  LET fxm == (cfg.n[1] > 1) /\ (is_periodic \/ ~ is_on_boundary(b, axis_x, face_lower))
      fxp == (cfg.n[1] > 1) /\ (is_periodic \/ ~ is_on_boundary(b, axis_x, face_upper))
      fym == (cfg.n[2] > 1) /\ (is_periodic \/ ~ is_on_boundary(b, axis_y, face_lower))
      fyp == (cfg.n[2] > 1) /\ (is_periodic \/ ~ is_on_boundary(b, axis_y, face_upper))
      fzm == (cfg.n[3] > 1) /\ (is_periodic \/ ~ is_on_boundary(b, axis_z, face_lower))
      fzp == (cfg.n[3] > 1) /\ (is_periodic \/ ~ is_on_boundary(b, axis_z, face_upper))
      faces == B2N(fxm) + B2N(fxp) + B2N(fym) + B2N(fyp) + B2N(fzm) + B2N(fzp)
      edges == B2N(fxm /\ fym) + B2N(fxm /\ fyp) + B2N(fxp /\ fym) + B2N(fxp /\ fyp)
             + B2N(fym /\ fzm) + B2N(fym /\ fzp) + B2N(fyp /\ fzm) + B2N(fyp /\ fzp)
             + B2N(fzm /\ fxm) + B2N(fzm /\ fxp) + B2N(fzp /\ fxm) + B2N(fzp /\ fxp)
      corners == B2N(fxm /\ fym /\ fzm) + B2N(fxm /\ fym /\ fzp)
               + B2N(fxm /\ fyp /\ fzm) + B2N(fxm /\ fyp /\ fzp)
               + B2N(fxp /\ fym /\ fzm) + B2N(fxp /\ fym /\ fzp)
               + B2N(fxp /\ fyp /\ fzm) + B2N(fxp /\ fyp /\ fzp)
  IN  0 + (IF refresh_face(2) THEN faces ELSE 0)
        + (IF refresh_face(1) THEN edges ELSE 0)
        + (IF refresh_face(0) THEN corners ELSE 0)

\* CommBlock::count_refresh_ : the quorum, 1 (self) + counted faces, edges, corners
count_refresh_(b) ==
  LET fxm == (cfg.n[1] > 1) /\ (is_periodic \/ ~ is_on_boundary(b, axis_x, face_lower))
      fxp == (cfg.n[1] > 1) /\ (is_periodic \/ ~ is_on_boundary(b, axis_x, face_upper))
      fym == (cfg.n[2] > 1) /\ (is_periodic \/ ~ is_on_boundary(b, axis_y, face_lower))
      fyp == (cfg.n[2] > 1) /\ (is_periodic \/ ~ is_on_boundary(b, axis_y, face_upper))
      fzm == (cfg.n[3] > 1) /\ (is_periodic \/ ~ is_on_boundary(b, axis_z, face_lower))
      fzp == (cfg.n[3] > 1) /\ (is_periodic \/ ~ is_on_boundary(b, axis_z, face_upper))
      faces == B2N(fxm) + B2N(fxp) + B2N(fym) + B2N(fyp) + B2N(fzm) + B2N(fzp)
      edges == B2N(fxm /\ fym) + B2N(fxm /\ fyp) + B2N(fxp /\ fym) + B2N(fxp /\ fyp)
             + B2N(fym /\ fzm) + B2N(fym /\ fzp) + B2N(fyp /\ fzm) + B2N(fyp /\ fzp)
             + B2N(fzm /\ fxm) + B2N(fzm /\ fxp) + B2N(fzp /\ fxm) + B2N(fzp /\ fxp)
      corners == B2N(fxm /\ fym /\ fzm) + B2N(fxm /\ fym /\ fzp)
               + B2N(fxm /\ fyp /\ fzm) + B2N(fxm /\ fyp /\ fzp)
               + B2N(fxp /\ fym /\ fzm) + B2N(fxp /\ fym /\ fzp)
               + B2N(fxp /\ fyp /\ fzm) + B2N(fxp /\ fyp /\ fzp)
  IN  1 + (IF refresh_face(2) THEN faces ELSE 0)
        + (IF refresh_face(1) THEN edges ELSE 0)
        + (IF refresh_face(0) THEN corners ELSE 0)

\* variant of F3: the periodic flag is not consulted
F3_NoPeriodic(b, ax, f) ==
  CASE f = 0  -> TRUE
      [] f = -1 -> determine_boundary_(ax, face_lower) /\ ~ is_on_boundary(b, ax, face_lower)
      [] f = 1  -> determine_boundary_(ax, face_upper) /\ ~ is_on_boundary(b, ax, face_upper)

\* refresh(): fx3/fy3/fz3[f+1] for axis ax
F3(b, ax, f) ==
  CASE f = 0  -> TRUE
      [] f = -1 -> determine_boundary_(ax, face_lower) /\ (is_periodic \/ ~ is_on_boundary(b, ax, face_lower))
      [] f = 1  -> determine_boundary_(ax, face_upper) /\ (is_periodic \/ ~ is_on_boundary(b, ax, face_upper))

\* variant of I3: the neighbour index is not wrapped
I3_NoWrap(b, ax, f) == b[ax + 1] + f

\* refresh(): ix3/iy3/iz3[f+1] for axis ax
I3(b, ax, f) ==
  CASE f = -1 -> (b[ax + 1] - 1 + cfg.nb[ax + 1]) % cfg.nb[ax + 1]
    [] f = 0  -> b[ax + 1]
    [] f = 1  -> (b[ax + 1] + 1) % cfg.nb[ax + 1]

\* refresh(): loop limits fxl, fyl, fzl
FaceLimit(ax) ==
  IF ax = axis_x THEN 1
  ELSE IF cfg.nb[ax + 1] = 1 /\ ~ is_periodic THEN 0 ELSE 1

\* refresh(): the condition under which the triple loop reaches direction d
\* and sends its face
SendsFace(b, d) ==
  /\ \A ax \in Axes : abs(d[ax + 1]) <= FaceLimit(ax)
  /\ F3(b, axis_x, d[1]) /\ F3(b, axis_y, d[2]) /\ F3(b, axis_z, d[3])
  /\ LET sum == abs(d[1]) + abs(d[2]) + abs(d[3])
     IN  \/ (sum = 1 /\ refresh_face(2))
         \/ (sum = 2 /\ refresh_face(1))
         \/ (sum = 3 /\ refresh_face(0))

\* refresh(): the directions a face is sent for
RefreshDirs(b) == { d \in Dirs : SendsFace(b, d) }

\* refresh(): index.set_array(ix3[fx+1],iy3[fy+1],iz3[fz+1])
NeighborIndex(b, d) == << I3(b, axis_x, d[1]), I3(b, axis_y, d[2]), I3(b, axis_z, d[3]) >>

Neg(d) == << -d[1], -d[2], -d[3] >>

\* FieldFace::load after set_face(fx,fy,fz): the packed boundary layer of
\* block b along direction d, as the block holds it in cycle cyc
FieldFace_load(b, d, cyc) == << b, d, cyc >>

\* FieldFace::store after set_face(fx,fy,fz): the buffer becomes the content
\* of the ghost region on face f
FieldFace_store(g, f, buffer) == [g EXCEPT ![f] = buffer]

\* refresh(): thisProxy[index].x_refresh (n,array,-fx,-fy,-fz) for every sent face
\* variant of RefreshSends: the face is tagged with the sender's direction
RefreshSends_NoInversion(b, cyc) ==
  { [to |-> NeighborIndex(b, d), from |-> b, f |-> d, n |-> 1, cyc |-> cyc,
     buffer |-> FieldFace_load(b, d, cyc)] :
      d \in RefreshDirs(b) }

RefreshSends(b, cyc) ==
  { [to |-> NeighborIndex(b, d), from |-> b, f |-> Neg(d), n |-> 1, cyc |-> cyc,
     buffer |-> FieldFace_load(b, d, cyc)] :
      d \in RefreshDirs(b) }


\* ------------------------------------------------------------- protocol
\* variant of the constructor: the stop value of sync_refresh_ is left at 1
SyncStop_One(b) == 1

\* sync_refresh_.stop() = count_refresh_()   (constructor)
SyncStop(b) == count_refresh_(b)

\* variant of Sync_done: the counter does not start over
Sync_done_NoReset(curr, stop) ==
  IF curr + 1 >= stop THEN [done |-> TRUE,  curr |-> curr]
                      ELSE [done |-> FALSE, curr |-> curr + 1]

\* Sync::done(): count one arrival; true, and the counter starts over, when
\* the count equals the stop value
Sync_done(curr, stop) ==
  IF curr + 1 = stop THEN [done |-> TRUE,  curr |-> 0]
                     ELSE [done |-> FALSE, curr |-> curr + 1]

\* the part of the state the member functions of a block read and write
CurState ==
  [cycle_ |-> cycle_, time_ |-> time_, dt_ |-> dt_, sync |-> sync, msgs |-> msgs,
   contribs |-> contribs, started |-> started, nprep |-> nprep,
   nquorum |-> nquorum, narrive |-> narrive, ghost |-> ghost,
   enforced |-> enforced, calls |-> calls, nsent |-> nsent,
   sentAtPrepare |-> sentAtPrepare]

Commit(s) ==
  /\ cycle_'   = s.cycle_
  /\ time_'    = s.time_
  /\ dt_'      = s.dt_
  /\ sync'     = s.sync
  /\ msgs'     = s.msgs
  /\ contribs' = s.contribs
  /\ started'  = s.started
  /\ nprep'    = s.nprep
  /\ nquorum'  = s.nquorum
  /\ narrive'  = s.narrive
  /\ ghost'    = s.ghost
  /\ enforced' = s.enforced
  /\ calls'    = s.calls
  /\ nsent'    = s.nsent
  /\ sentAtPrepare' = s.sentAtPrepare

\* what the collaborators return to one prepare():
\*   ev    Timestep::evaluate
\*   sched the value the Schedule::update_timestep chain leaves (never larger)
\*   stop  Stopping::complete(cycle_,time_)
Inputs ==
  { i \in [ev : 1 .. MaxDt, sched : 1 .. MaxDt, stop : BOOLEAN] : i.sched <= i.ev }

\* CommBlock::update_boundary_ : the (face, axis) pairs Boundary::enforce is
\* invoked for
update_boundary_(b) ==
  { p \in {face_lower, face_upper} \X Axes :
      determine_boundary_(p[2], p[1]) /\ is_on_boundary(b, p[2], p[1]) }

\* variant of prepare: the block's candidate is kept in dt_
prepare_SetsDt(s, b, inp) ==
  LET dt_block0  == inp.ev
      dt_block1  == MIN(dt_block0, inp.sched)
      dt_block   == MIN(dt_block1, StopTime - s.time_[b])
      stop_block == inp.stop
      min_reduce == << dt_block, IF stop_block THEN 1 ELSE 0 >>
  IN  [s EXCEPT !.enforced[b] = update_boundary_(b),
                !.dt_[b]      = dt_block,
                !.contribs[b] = Append(@, min_reduce),
                !.started[b]  = TRUE,
                !.sentAtPrepare[b] = s.nsent[b],
                !.nprep[b]    = @ + 1]

\* variant of prepare: the candidate is not clamped to the stop time
prepare_NoClamp(s, b, inp) ==
  LET dt_block0  == inp.ev
      dt_block   == MIN(dt_block0, inp.sched)
      stop_block == inp.stop
      min_reduce == << dt_block, IF stop_block THEN 1 ELSE 0 >>
  IN  [s EXCEPT !.enforced[b] = update_boundary_(b),
                !.contribs[b] = Append(@, min_reduce),
                !.started[b]  = TRUE,
                !.sentAtPrepare[b] = s.nsent[b],
                !.nprep[b]    = @ + 1]

\* CommBlock::prepare : boundary conditions; local dt, clamped to the stop
\* time; local stop flag;
\* contribute(2*sizeof(double), min_reduce, CkReduction::min_double, callback)
prepare(s, b, inp) ==
  LET dt_block0  == inp.ev
      dt_block1  == MIN(dt_block0, inp.sched)
      dt_block   == MIN(dt_block1, StopTime - s.time_[b])
      stop_block == inp.stop
      min_reduce == << dt_block, IF stop_block THEN 1 ELSE 0 >>
  IN  [s EXCEPT !.enforced[b] = update_boundary_(b),
                !.contribs[b] = Append(@, min_reduce),
                !.started[b]  = TRUE,
                !.sentAtPrepare[b] = s.nsent[b],
                !.nprep[b]    = @ + 1]

\* variant of x_refresh: prepare() is called without asking sync_refresh_
x_refresh_NoSync(s, b, n, buffer, f, inp) ==
  LET r  == Sync_done(s.sync[b], SyncStop(b))
      s0 == IF n # 0 THEN [s EXCEPT !.ghost[b] = FieldFace_store(@, f, buffer)] ELSE s
      s1 == [s0 EXCEPT !.sync[b]    = r.curr,
                       !.narrive[b] = @ + 1,
                       !.nquorum[b] = IF r.done THEN @ + 1 ELSE @]
  IN  prepare(s1, b, inp)

\* CommBlock::x_refresh : store a non-empty face, count the arrival, and call
\* prepare() when sync_refresh_ is done
x_refresh(s, b, n, buffer, f, inp) ==
  LET r  == Sync_done(s.sync[b], SyncStop(b))
      s0 == IF n # 0 THEN [s EXCEPT !.ghost[b] = FieldFace_store(@, f, buffer)] ELSE s
      s1 == [s0 EXCEPT !.sync[b]    = r.curr,
                       !.narrive[b] = @ + 1,
                       !.nquorum[b] = IF r.done THEN @ + 1 ELSE @]
  IN  IF r.done THEN prepare(s1, b, inp) ELSE s1

\* variant of refresh: the closing x_refresh (0,0,0,0,0) to self is missing
refresh_NoSelf(s, b, inp) ==
  [s EXCEPT !.msgs     = @ \cup RefreshSends(b, s.cycle_[b]),
            !.nsent[b] = @ + Cardinality(RefreshSends(b, s.cycle_[b]))]

\* variant of refresh: x_refresh (0,0,0,0,0) is called before the faces are sent
refresh_SelfFirst(s, b, inp) ==
  LET s1 == x_refresh(s, b, 0, << >>, <<0, 0, 0>>, inp)
  IN  [s1 EXCEPT !.msgs     = @ \cup RefreshSends(b, s.cycle_[b]),
                 !.nsent[b] = @ + Cardinality(RefreshSends(b, s.cycle_[b]))]

\* CommBlock::refresh : send every active face to its neighbour, then call
\* x_refresh (0,0,0,0,0) on this block
refresh(s, b, inp) ==
  LET s1 == [s EXCEPT !.msgs     = @ \cup RefreshSends(b, s.cycle_[b]),
                      !.nsent[b] = @ + Cardinality(RefreshSends(b, s.cycle_[b]))]
  IN  x_refresh(s1, b, 0, << >>, <<0, 0, 0>>, inp)

\* Problem::method(index): the Method registered at index, 0 past the end
NoMethod == [null |-> TRUE]

Problem_method(index) == IF index < NumMethods THEN [null |-> FALSE, index |-> index] ELSE NoMethod

\* compute(): while (Method * method = problem->method(index_method++))
\*              method->compute_block(field_descr,this)
RECURSIVE MethodLoop(_, _)
MethodLoop(index_method, log) ==
  LET method == Problem_method(index_method)
  IN  IF method = NoMethod THEN log
      ELSE MethodLoop(index_method + 1, Append(log, method.index))

\* variant of compute: the Method loop starts at index 1
compute_SkipFirst(s, b, inp) ==
  LET s1 == [s EXCEPT !.calls[b]  = MethodLoop(1, << >>),
                      !.cycle_[b] = @ + 1,
                      !.time_[b]  = @ + s.dt_[b]]
  IN  refresh(s1, b, inp)

\* CommBlock::compute : the Methods, then cycle_ + 1 and time_ + dt_, then refresh()
compute(s, b, inp) ==
  LET s1 == [s EXCEPT !.calls[b]  = MethodLoop(0, << >>),
                      !.cycle_[b] = @ + 1,
                      !.time_[b]  = @ + s.dt_[b]]
  IN  refresh(s1, b, inp)

\* CkReduction::min_double over the two doubles of every contribution
MinOf(S) == CHOOSE x \in S : \A y \in S : x <= y

ReduceMin(heads) ==
  << MinOf({ heads[b][1] : b \in DOMAIN heads }),
     MinOf({ heads[b][2] : b \in DOMAIN heads }) >>

\* ------------------------------------------------------------- configurations
Cfg(nb, n, per, rf) == [nb |-> nb, n |-> n, periodic |-> per, rf |-> rf]

\* cell counts per axis of the field block
CellCounts == {1, 8}

\* every configuration of the topology specification
TopoConfigs ==
  { Cfg(nb, n, per, rf) :
      nb \in (1 .. MaxNb) \X (1 .. 3) \X (1 .. 3),
      n  \in CellCounts \X CellCounts \X CellCounts,
      per \in BOOLEAN,
      rf \in BOOLEAN \X BOOLEAN \X BOOLEAN }

\* the domains the protocol specification runs; rf = <<corner, edge, face>>
ProtoConfigs ==
  { Cfg(<<1, 1, 1>>, <<8, 8, 8>>, FALSE, <<TRUE, TRUE, TRUE>>),
    Cfg(<<2, 1, 1>>, <<8, 8, 1>>, FALSE, <<FALSE, FALSE, TRUE>>),
    Cfg(<<3, 1, 1>>, <<8, 1, 1>>, FALSE, <<FALSE, FALSE, TRUE>>),
    Cfg(<<2, 1, 1>>, <<8, 1, 1>>, TRUE,  <<FALSE, FALSE, TRUE>>),
    Cfg(<<1, 1, 1>>, <<8, 1, 1>>, TRUE,  <<FALSE, FALSE, TRUE>>),
    Cfg(<<2, 1, 1>>, <<1, 1, 1>>, TRUE,  <<TRUE, TRUE, TRUE>>),
    Cfg(<<2, 1, 1>>, <<8, 8, 1>>, TRUE,  <<FALSE, FALSE, TRUE>>) }

\* ------------------------------------------------------------- initial state
\* CommBlock::CommBlock : cycle_(0), time_(0), dt_(0), arrival counter at 0
Constructed(c) ==
  /\ cfg      = c
  /\ cycle_   = [b \in BlocksOf(c) |-> 0]
  /\ time_    = [b \in BlocksOf(c) |-> 0]
  /\ dt_      = [b \in BlocksOf(c) |-> 0]
  /\ sync     = [b \in BlocksOf(c) |-> 0]
  /\ msgs     = {}
  /\ contribs = [b \in BlocksOf(c) |-> << >>]
  /\ pout     = {}
  /\ pcomp    = {}
  /\ checkin  = 0
  /\ sim      = [cycle |-> 0, time |-> 0, dt |-> 0, stop |-> FALSE]
  /\ exited   = FALSE
  /\ started  = [b \in BlocksOf(c) |-> FALSE]
  /\ nprep    = [b \in BlocksOf(c) |-> 0]
  /\ nres     = [b \in BlocksOf(c) |-> 0]
  /\ nquorum  = [b \in BlocksOf(c) |-> 0]
  /\ narrive  = [b \in BlocksOf(c) |-> 0]
  /\ ghost    = [b \in BlocksOf(c) |-> [d \in Dirs |-> << >>]]
  /\ enforced = [b \in BlocksOf(c) |-> {}]
  /\ calls    = [b \in BlocksOf(c) |-> << >>]
  /\ nsent    = [b \in BlocksOf(c) |-> 0]
  /\ sentAtPrepare = [b \in BlocksOf(c) |-> 0]
  /\ crashed  = {}
  /\ nred     = 0
  /\ redhist  = [dts |-> {}, stops |-> {}]
  /\ probe    = << >>

Init == particle = << >> /\ \E c \in ProtoConfigs : Constructed(c)

\* ------------------------------------------------------------- actions
\* the block enters the state machine at PREPARE
Start(b) ==
  /\ ~ exited
  /\ ~ started[b]
  /\ \E inp \in Inputs : Commit(prepare(CurState, b, inp))
  /\ UNCHANGED << cfg, pout, pcomp, checkin, sim, exited, nres, crashed, nred, redhist, probe, particle >>

\* variant of Reduce: the reduction completes on the contributions present
Reduce_Partial ==
  /\ ~ exited
  /\ \E b \in Blocks : contribs[b] # << >>
  /\ LET there  == { b \in Blocks : contribs[b] # << >> }
         heads  == [b \in there |-> Head(contribs[b])]
         result == << MinOf({ heads[b][1] : b \in there }), MinOf({ heads[b][2] : b \in there }) >>
     IN  /\ contribs' = [b \in Blocks |-> IF b \in there THEN Tail(contribs[b]) ELSE << >>]
         /\ nred'     = nred + 1
         /\ pout'     = pout \cup { [to |-> b, data |-> result, red |-> nred + 1] : b \in Blocks }
         /\ redhist'  = [dts   |-> { heads[b][1] : b \in there },
                         stops |-> { heads[b][2] = 1 : b \in there }]
  /\ UNCHANGED << cfg, cycle_, time_, dt_, sync, msgs, pcomp, checkin, sim, exited,
                  started, nprep, nres, nquorum, narrive, ghost, enforced, calls,
                  nsent, sentAtPrepare, crashed, probe, particle >>

\* the reduction completes once every block has contributed: the element-wise
\* minimum goes to p_output of every block
Reduce ==
  /\ ~ exited
  /\ \A b \in Blocks : contribs[b] # << >>
  /\ LET heads  == [b \in Blocks |-> Head(contribs[b])]
         result == ReduceMin(heads)
     IN  /\ contribs' = [b \in Blocks |-> Tail(contribs[b])]
         /\ nred'     = nred + 1
         /\ pout'     = pout \cup { [to |-> b, data |-> result, red |-> nred + 1] : b \in Blocks }
         /\ redhist'  = [dts   |-> { heads[b][1] : b \in Blocks },
                         stops |-> { heads[b][2] = 1 : b \in Blocks }]
  /\ UNCHANGED << cfg, cycle_, time_, dt_, sync, msgs, pcomp, checkin, sim, exited,
                  started, nprep, nres, nquorum, narrive, ghost, enforced, calls,
                  nsent, sentAtPrepare, crashed, probe, particle >>

\* SimulationCharm::p_output : when every block has checked in, either the run
\* ends (stop) or p_compute(cycle,time,dt) goes to every block
SimulationCharm_p_output(stop) ==
  IF checkin + 1 = Cardinality(Blocks)
  THEN /\ checkin' = 0
       /\ IF stop
          THEN exited' = TRUE /\ pcomp' = pcomp
          ELSE /\ exited' = exited
               /\ pcomp' = pcomp \cup { [to |-> b, k |-> nred, cycle |-> sim'.cycle,
                                          time |-> sim'.time, dt |-> sim'.dt] : b \in Blocks }
  ELSE /\ checkin' = checkin + 1
       /\ UNCHANGED << exited, pcomp >>

\* variant of p_output: the stop flag is read from min_reduce[0]
p_output_WrongSlot(m) ==
  /\ ~ exited
  /\ m \in pout
  /\ LET dt_forest   == m.data[2]
         stop_forest == (m.data[2] = 1)
     IN  /\ dt_'  = [dt_ EXCEPT ![m.to] = dt_forest]
         /\ sim'  = [cycle |-> cycle_[m.to], time |-> time_[m.to],
                     dt |-> dt_forest, stop |-> stop_forest]
         /\ SimulationCharm_p_output(stop_forest)
  /\ pout' = pout \ {m}
  /\ nres' = [nres EXCEPT ![m.to] = @ + 1]
  /\ UNCHANGED << cfg, cycle_, time_, sync, msgs, contribs, started, nprep,
                  nquorum, narrive, ghost, enforced, calls,
                  nsent, sentAtPrepare, crashed, nred, redhist, probe, particle >>

\* CommBlock::p_output : store the reduced dt, hand dt and stop to the
\* Simulation, check in
p_output(m) ==
  /\ ~ exited
  /\ m \in pout
  /\ LET dt_forest   == m.data[1]
         stop_forest == (m.data[2] = 1)
     IN  /\ dt_'  = [dt_ EXCEPT ![m.to] = dt_forest]
         /\ sim'  = [cycle |-> cycle_[m.to], time |-> time_[m.to],
                     dt |-> dt_forest, stop |-> stop_forest]
         /\ SimulationCharm_p_output(stop_forest)
  /\ pout' = pout \ {m}
  /\ nres' = [nres EXCEPT ![m.to] = @ + 1]
  /\ UNCHANGED << cfg, cycle_, time_, sync, msgs, contribs, started, nprep,
                  nquorum, narrive, ghost, enforced, calls,
                  nsent, sentAtPrepare, crashed, nred, redhist, probe, particle >>

\* CommBlock::p_compute : the arguments are not stored; compute()
p_compute(m) ==
  /\ ~ exited
  /\ m \in pcomp
  /\ cycle_[m.to] < MaxCycle
  /\ \E inp \in Inputs : Commit(compute(CurState, m.to, inp))
  /\ pcomp' = pcomp \ {m}
  /\ UNCHANGED << cfg, pout, checkin, sim, exited, nres, crashed, nred, redhist, probe, particle >>

\* delivery of one x_refresh message sent by a neighbour's refresh()
Deliver_x_refresh(m) ==
  /\ ~ exited
  /\ m \in msgs
  /\ \E inp \in Inputs :
       Commit(x_refresh([CurState EXCEPT !.msgs = @ \ {m}], m.to, m.n, m.buffer, m.f, inp))
  /\ UNCHANGED << cfg, pout, pcomp, checkin, sim, exited, nres, crashed, nred, redhist, probe, particle >>

Next ==
  \/ \E b \in Blocks : Start(b)
  \/ Reduce
  \/ \E m \in pout : p_output(m)
  \/ \E m \in pcomp : p_compute(m)
  \/ \E m \in msgs : Deliver_x_refresh(m)

Spec == Init /\ [][Next]_vars


\* ------------------------------------------------------------- protocol properties
\* C1: a block enters prepare() of cycle c+1 (its (c+1)-th contribution) only
\* after it has received the reduction result of cycle c and all quorum
\* x_refresh deliveries, its self message included, of cycle c.
C1_PrepareAfterResultAndQuorum ==
  \A b \in Blocks :
     nprep[b] >= 2 =>
        /\ nres[b] >= nprep[b] - 1
        /\ nquorum[b] >= nprep[b] - 1
        /\ narrive[b] >= (nprep[b] - 1) * count_refresh_(b)

\* a block with two neighbours has entered its third prepare()
C1_Witness ==
  /\ cfg.nb = <<3, 1, 1>>
  /\ nprep[<<1, 0, 0>>] = 3
  /\ narrive[<<1, 0, 0>>] = 6

\* C3: under every interleaving of deliveries, no block enters prepare() of
\* cycle c+1 before the reduction result of cycle c has been delivered to
\* every block of the domain, neighbour or not.
C3_GlobalBarrier ==
  \A a \in Blocks : \A b \in Blocks : nprep[a] <= nres[b] + 1

\* block 0 is in its second prepare() while block 2, not a neighbour of it,
\* has received the first result and has not computed yet
C3_Witness ==
  /\ cfg.nb = <<3, 1, 1>>
  /\ nprep[<<0, 0, 0>>] = 2
  /\ nres[<<2, 0, 0>>] = 1
  /\ cycle_[<<2, 0, 0>>] = 0

\* some block has received the result of the last completed reduction
ResultAt(b) == nred > 0 /\ nres[b] = nred

\* C4: the global stop flag p_output extracts from the reduction is true if
\* and only if at least one block's local stop flag was true.
C4_StopIsOr ==
  \A b \in Blocks : ResultAt(b) => (sim.stop <=> (TRUE \in redhist.stops))

\* C5: the dt every block stores in p_output is the minimum of the candidate
\* timesteps submitted to the reduction: one of them, not larger than any of
\* them, and the same on all blocks.
C5_DtIsGlobalMin ==
  \A b \in Blocks :
     ResultAt(b) =>
        /\ dt_[b] \in redhist.dts
        /\ \A x \in redhist.dts : dt_[b] <= x
        /\ \A a \in Blocks : ResultAt(a) => dt_[a] = dt_[b]

\* every block holds the result of a reduction of two different candidates
C5_Witness ==
  /\ Cardinality(Blocks) >= 2
  /\ \A b \in Blocks : ResultAt(b) /\ dt_[b] = 1
  /\ redhist.dts = {1, 2}

\* C6: reaching quorum is what triggers COMPUTE, and the Methods and the
\* cycle/time advance run only after the arrival counter reached quorum: a
\* block's cycle advances in exactly the steps in which its counter reaches
\* quorum.
C6_QuorumTriggersCompute ==
  [][ \A b \in Blocks : (nquorum'[b] # nquorum[b]) <=> (cycle_'[b] # cycle_[b]) ]_vars

\* C7: when the reduction result has the stop flag set, the block runs COMPUTE
\* for that cycle and then is terminated: once the run has ended every block
\* has computed every cycle whose result it received.
C7_ComputeThenTerminated ==
  exited => \A b \in Blocks : cycle_[b] = nres[b]

\* C8: a block with an empty active-direction set (quorum 1) passes its ghost
\* wait in every cycle after exactly one x_refresh, its own self call: no
\* message is addressed to it, and each compute is followed by prepare().
C8_EmptySetProgress ==
  \A b \in Blocks :
     count_refresh_(b) = 1 =>
        /\ \A m \in msgs : m.to # b
        /\ narrive[b] = cycle_[b]
        /\ nquorum[b] = cycle_[b]
        /\ started[b] => nprep[b] = cycle_[b] + 1

\* a block without active directions has gone through two cycles
C8_Witness ==
  \E b \in Blocks :
     /\ count_refresh_(b) = 1
     /\ RefreshDirs(b) = {}
     /\ cycle_[b] = 2
     /\ nprep[b] = 3

\* C13: every face block i sends for direction d is addressed to its
\* neighbour j and tagged -d; the neighbour of j in the tag direction is i
\* (also under periodic wrap), the buffer is the layer i packed for d, and
\* delivering the message leaves j's ghost region of face -d equal to it.
C13_Step ==
  \A m \in msgs :
     /\ NeighborIndex(m.to, m.f) = m.from
     /\ NeighborIndex(m.from, Neg(m.f)) = m.to
     /\ m.buffer = FieldFace_load(m.from, Neg(m.f), m.cyc)
     /\ m \notin msgs' => ghost'[m.to][m.f] = m.buffer

C13_DirectionInversion == [][C13_Step]_vars

\* across the periodic boundary of a 2x1x1 domain: block 0 holds on its
\* lower x face what block 1 packed for its upper x face after a compute
C13_Witness ==
  /\ cfg.periodic
  /\ cfg.nb = <<2, 1, 1>>
  /\ ghost[<<0, 0, 0>>][<<-1, 0, 0>>] = FieldFace_load(<<1, 0, 0>>, <<1, 0, 0>>, 1)

\* C15: between two consecutive reduction results a block contributes exactly
\* once, whatever the order of ghost deliveries: its contributions never fall
\* behind its results, are never more than one ahead, and at most one is
\* pending in the reduction.
C15_OneContributionPerCycle ==
  \A b \in Blocks :
     /\ nres[b] <= nprep[b]
     /\ nprep[b] <= nres[b] + 1
     /\ Len(contribs[b]) <= 1

\* a block of a three-block domain, ghost faces still in flight, has made its
\* third contribution after two results
C15_Witness ==
  /\ Cardinality(Blocks) = 3
  /\ msgs # {}
  /\ \E b \in Blocks : nres[b] = 2 /\ nprep[b] = 3 /\ Len(contribs[b]) = 1

\* C16: the result of a cycle reaches no block before every block has
\* contributed to that cycle, and no block's cycle counter passes a cycle
\* some block has not contributed to.
C16_ResultNeedsEveryContribution ==
  \A a \in Blocks :
     \A b \in Blocks :
        /\ nres[b] <= nprep[a]
        /\ cycle_[b] <= nprep[a]

\* one block has not yet made the contribution the others are waiting on
C16_Witness ==
  \E a \in Blocks :
     \E b \in Blocks :
        /\ nprep[a] >= 1
        /\ nprep[a] < nprep[b]
        /\ contribs[b] # << >>
        /\ nres[b] = nprep[a]
        /\ cycle_[b] = nprep[a]

\* C17: the timestep a block contributes never exceeds stop time minus its
\* time, and its time never passes the stop time.
C17_NoOvershoot ==
  \A b \in Blocks :
     /\ time_[b] <= StopTime
     /\ \A i \in 1 .. Len(contribs[b]) : contribs[b][i][1] <= StopTime - time_[b]

\* a block that has reached the stop time contributes the clamped timestep 0
C17_Witness ==
  \E b \in Blocks :
     /\ time_[b] = StopTime
     /\ cycle_[b] >= 2
     /\ contribs[b] # << >>
     /\ Head(contribs[b])[1] = 0

\* C18: prepare() invokes Boundary::enforce only for faces on the domain
\* boundary of a domain that is not periodic.
C18_EnforceOnlyNonPeriodicBoundary ==
  \A b \in Blocks :
     \A p \in enforced[b] :
        /\ is_on_boundary(b, p[2], p[1])
        /\ ~ cfg.periodic

\* C20: each compute() calls compute_block of every method once, in index
\* order 0, 1, ..., then advances cycle_ by one and time_ by the block's dt_,
\* which is the reduced dt of the cycle.
C20_Step ==
  \A b \in Blocks :
     cycle_'[b] # cycle_[b] =>
        /\ calls'[b] = [i \in 1 .. NumMethods |-> i - 1]
        /\ cycle_'[b] = cycle_[b] + 1
        /\ time_'[b] = time_[b] + dt_[b]
        /\ dt_[b] = sim.dt

C20_ComputeAdvances == [][C20_Step]_vars

\* a block after its second compute(), its time advanced by both timesteps
C20_Witness ==
  \E b \in Blocks :
     /\ cycle_[b] = 2
     /\ time_[b] >= 2
     /\ calls[b] = [i \in 1 .. NumMethods |-> i - 1]

\* C21: ghost faces are counted whatever their arrival order and whatever the
\* receiver is doing: every delivery adds exactly one to the receiver's
\* arrival count, whether it comes before or after the receiver's own
\* refresh(), and the ghost wait is passed exactly once per round, at the
\* arrival that makes the count equal to the quorum.
C21_Step ==
  \A b \in Blocks :
     /\ narrive[b] = nquorum[b] * SyncStop(b) + sync[b]
     /\ sync[b] < SyncStop(b)
     /\ \A m \in msgs : (m.to = b /\ m \notin msgs') => narrive'[b] = narrive[b] + 1
     /\ narrive'[b] \in { narrive[b], narrive[b] + 1 }
     /\ nquorum'[b] \in { nquorum[b], nquorum[b] + 1 }
     /\ nquorum'[b] = nquorum[b] + 1
          <=> (narrive'[b] = narrive[b] + 1 /\ sync[b] + 1 = SyncStop(b))

C21_OrderIndependentCounting == [][C21_Step]_vars

\* a face of the second round has been counted by a block that has not yet
\* run its own compute() and refresh() of that round
C21_Witness ==
  \E b \in Blocks :
     /\ nquorum[b] = 1
     /\ cycle_[b] = 1
     /\ sync[b] >= 1
     /\ \E m \in pcomp : m.to = b

\* C27: a face is stored into the ghost region only when the receiver has
\* finished its own compute of the cycle the face was packed in: at every
\* store the receiver's cycle_ equals the cycle_ the sender packed with.
C27_Step ==
  \A m \in msgs :
     (m \notin msgs' /\ m.n # 0) => cycle_[m.to] = m.cyc

C27_StoreAfterOwnCompute == [][C27_Step]_vars

\* C28: the arrival counter stays below the quorum between resets, and every
\* face in flight to a block was packed in the round the block is waiting
\* in: no face of a later round reaches a block whose round is not complete.
C28_RoundsDoNotMix ==
  /\ \A b \in Blocks : sync[b] < SyncStop(b) /\ narrive[b] <= (nquorum[b] + 1) * SyncStop(b)
  /\ \A m \in msgs : m.cyc = nquorum[m.to] + 1
  /\ \A b \in Blocks : \A f \in Dirs :
        ghost[b][f] # << >> => ghost[b][f][3] \in { nquorum[b], nquorum[b] + 1 }

\* a block in its second round holds one face of that round while another
\* face of the same round is still in flight to it
C28_Witness ==
  \E b \in Blocks :
     /\ nquorum[b] = 1
     /\ sync[b] >= 1
     /\ \E m \in msgs : m.to = b /\ m.cyc = 2
     /\ \E f \in Dirs : ghost[b][f] # << >> /\ ghost[b][f][3] = 2

\* the step leaves cycle_, time_ and dt_ of every block as they are
KeepsActorState == cycle_' = cycle_ /\ time_' = time_ /\ dt_' = dt_

\* C24: cycle_, time_ and dt_ of a block change only in that block's own
\* entry methods: cycle_ and time_ only in the compute() of its p_compute,
\* which advances them from the block's own fields and not from the message
\* arguments, dt_ only in its p_output; prepare(), refresh() and x_refresh()
\* leave all three alone for every block (the first prepare() of a block and
\* every delivered x_refresh, with the prepare() it may call, change none of
\* them; the refresh() inside compute() adds nothing to compute's advance).
C24_Step ==
  /\ \A b \in Blocks :
        /\ (cycle_'[b] # cycle_[b] \/ time_'[b] # time_[b])
              => \E m \in pcomp : m.to = b /\ m \notin pcomp'
        /\ dt_'[b] # dt_[b] => \E m \in pout : m.to = b /\ m \notin pout'
        /\ started'[b] # started[b] => KeepsActorState
  /\ \A m \in msgs : m \notin msgs' => KeepsActorState
  /\ \A m \in pcomp :
        m \notin pcomp' =>
           /\ cycle_'[m.to] = cycle_[m.to] + 1
           /\ time_'[m.to]  = time_[m.to] + dt_[m.to]
           /\ dt_' = dt_
           /\ \A a \in Blocks \ {m.to} : cycle_'[a] = cycle_[a] /\ time_'[a] = time_[a]
  /\ \A m \in pout :
        m \notin pout' =>
           /\ cycle_' = cycle_ /\ time_' = time_
           /\ \A a \in Blocks \ {m.to} : dt_'[a] = dt_[a]

C24_ActorStateOwned == [][C24_Step]_vars

\* one block has computed its second cycle while its neighbour has not
C24_Witness ==
  \E a \in Blocks :
     \E b \in Blocks :
        /\ cycle_[a] = 2 /\ time_[a] >= 2
        /\ cycle_[b] = 1
        /\ nprep[a] = 2
        /\ \E m \in pcomp : m.to = b /\ m.cycle = 1

\* C30: a block's arrival count reaches the quorum of a round only after the
\* block has sent all its own faces of that round, because its self call is
\* issued last in refresh() and is needed for the quorum: the quorum count
\* never passes the block's computes, and at every entry of prepare() for
\* the next cycle all faces of all the block's completed rounds are sent.
C30_QuorumAfterOwnSends ==
  \A b \in Blocks :
     /\ nquorum[b] <= cycle_[b]
     /\ nprep[b] <= cycle_[b] + 1
     /\ nsent[b] = Cardinality(RefreshDirs(b)) * cycle_[b]
     /\ started[b] => sentAtPrepare[b] = Cardinality(RefreshDirs(b)) * (nprep[b] - 1)

\* a block with active directions has entered prepare() for its third cycle
\* while a face it sent in the second round is still in flight
C30_Witness ==
  \E b \in Blocks :
     /\ RefreshDirs(b) # {}
     /\ nprep[b] = 3
     /\ sentAtPrepare[b] = 2 * Cardinality(RefreshDirs(b))
     /\ \E m \in msgs : m.from = b /\ m.cyc = 2

\* ------------------------------------------------------------- fault specification
\* The protocol of Spec with one fault: a block may stop for good between
\* two entry methods.  Messages addressed to it stay undelivered; everything
\* else runs as in Spec.  The code has no handler, timer or retry for this.
Crash(b) ==
  /\ ~ exited
  /\ crashed = {}
  /\ started[b]
  /\ crashed' = {b}
  /\ UNCHANGED << cfg, cycle_, time_, dt_, sync, msgs, contribs, pout, pcomp, checkin,
                  sim, exited, started, nprep, nres, nquorum, narrive, ghost, enforced,
                  calls, nsent, sentAtPrepare, nred, redhist, probe, particle >>

NextCrash ==
  \/ \E b \in Blocks : Crash(b)
  \/ \E b \in Blocks \ crashed : Start(b)
  \/ Reduce
  \/ \E m \in pout : m.to \notin crashed /\ p_output(m)
  \/ \E m \in pcomp : m.to \notin crashed /\ p_compute(m)
  \/ \E m \in msgs : m.to \notin crashed /\ Deliver_x_refresh(m)

SpecCrash == Init /\ [][NextCrash]_vars

\* the blocks the refresh() of block c sends a face to
SendsTo(c) == { NeighborIndex(c, d) : d \in RefreshDirs(c) }

\* C22: when a block has stopped and so never sends the faces of its next
\* round, every block it is an active neighbour of stays below quorum in
\* that round and never makes the contribution after it, and no block ever
\* receives the reduction result after it: nothing in the layer times out or
\* recovers.
C22_CrashStallsDomain ==
  \A c \in crashed :
     /\ \A a \in SendsTo(c) \ {c} :
           /\ nquorum[a] <= cycle_[c]
           /\ nprep[a] <= cycle_[c] + 1
     /\ nred <= cycle_[c] + 1
     /\ \A b \in Blocks : nres[b] <= cycle_[c] + 1 /\ cycle_[b] <= cycle_[c] + 1

\* a block stopped before its second compute: its neighbour has computed and
\* sent, holds only its self call, and no entry method is left to deliver to
\* a running block
C22_Witness ==
  \E c \in crashed :
     \E a \in SendsTo(c) \ {c} :
        /\ cycle_[c] = 1
        /\ cycle_[a] = 2
        /\ nquorum[a] = 1
        /\ sync[a] >= 1
        /\ \A m \in msgs : m.to = c
        /\ \A m \in pcomp : m.to = c
        /\ \A m \in pout : m.to = c

\* ------------------------------------------------------------- fair specification
\* Reliable delivery and fair scheduling: an entry method that can be
\* delivered is eventually delivered, a reduction that can complete does.
\* The domains are those of Spec with at most two blocks and no face sent
\* twice to the same block.
FairConfigs == { c \in ProtoConfigs : c.nb[1] <= 2 /\ (c.nb[1] = 1 \/ ~ c.periodic) }

InitFair == particle = << >> /\ \E c \in FairConfigs : Constructed(c)

SpecFair == InitFair /\ [][Next]_vars /\ WF_vars(Next)

\* the bounded run is over: the Simulation has exited, or every block has
\* computed MaxCycle cycles
RunOver == exited \/ \A b \in Blocks : cycle_[b] = MaxCycle

\* C23: with reliable delivery and fair scheduling the protocol does not
\* deadlock: unless the run ends on the stop flag, every block completes
\* every one of the MaxCycle cycles; a reduction result with the stop flag is
\* followed by the end of the run, and the run ends for no other reason than
\* that flag.
C23_NoDeadlock ==
  /\ <> RunOver
  /\ (sim.stop ~> exited)
  /\ [](exited => sim.stop)

\* the run has ended on the stop flag after two full cycles
C23_Witness ==
  /\ exited
  /\ sim.stop
  /\ Cardinality(Blocks) >= 2
  /\ \A b \in Blocks : cycle_[b] = 2

\* ------------------------------------------------------------- topology specification
\* Every configuration of the shared inputs is constructed; the actions
\* evaluate count_refresh_() of one block, as the constructor does, and the
\* faces one refresh() of the block sends.
InitTopo == particle = << >> /\ \E c \in TopoConfigs : Constructed(c)

CountRefresh(b) ==
  /\ probe = << >>
  /\ probe' = [block |-> b, count |-> count_refresh_(b), sends |-> RefreshSends(b, 0)]
  /\ UNCHANGED << cfg, cycle_, time_, dt_, sync, msgs, contribs, pout, pcomp,
                  checkin, sim, exited, started, nprep, nres, nquorum, narrive,
                  ghost, enforced, calls, nsent, sentAtPrepare, crashed, nred, redhist,
                  particle >>

NextTopo == \E b \in Blocks : CountRefresh(b)

SpecTopo == InitTopo /\ [][NextTopo]_vars

Probed == probe # << >>

\* x_refresh deliveries addressed to block b in one exchange round: one for
\* every face some block's refresh() sends to index b, and b's own self call
Deliveries(b) ==
  Cardinality({ p \in Blocks \X Dirs :
                  NeighborIndex(p[1], p[2]) = b /\ SendsFace(p[1], p[2]) }) + 1

\* C2: for every block of every configuration, the x_refresh deliveries
\* addressed to the block in one exchange round (one per sender and direction
\* whose neighbour index is the block, plus the self message) are as many as
\* the quorum count_refresh_() returned for the block.
C2_QuorumEqualsDeliveries ==
  Probed => probe.count = Deliveries(probe.block)

\* a block of a periodic domain that both receives wrapped faces and has
\* neighbours other than itself
C2_Witness ==
  /\ Probed
  /\ cfg.periodic
  /\ cfg.nb = <<2, 1, 3>>
  /\ probe.count = 27
  /\ Deliveries(probe.block) = 27

\* the active-direction set A of 4.2: every nonzero component on an axis
\* with more than one cell that is periodic or not facing the domain
\* boundary, and the weight class of the direction enabled
FacesBoundary(b, k, f) ==
  \/ (f = -1 /\ b[k] = 0)
  \/ (f = 1 /\ b[k] = cfg.nb[k] - 1)

Weight(d) == abs(d[1]) + abs(d[2]) + abs(d[3])

ClassEnabled(d) ==
  CASE Weight(d) = 1 -> cfg.rf[3]
    [] Weight(d) = 2 -> cfg.rf[2]
    [] Weight(d) = 3 -> cfg.rf[1]

ActiveSet(b) ==
  { d \in Dirs :
      /\ \A k \in 1 .. 3 :
           d[k] # 0 => (cfg.n[k] > 1 /\ (cfg.periodic \/ ~ FacesBoundary(b, k, d[k])))
      /\ ClassEnabled(d) }

\* C9: count_refresh_() returns 1 + |A| for every block index, domain extent,
\* periodic flag, cell counts and refresh-class setting.
C9_QuorumIsOnePlusA ==
  Probed => probe.count = 1 + Cardinality(ActiveSet(probe.block))

\* a boundary block of a non-periodic domain with edges on and faces off
C9_Witness ==
  /\ Probed
  /\ ~ cfg.periodic
  /\ cfg.rf = <<FALSE, TRUE, FALSE>>
  /\ cfg.nb = <<3, 3, 3>>
  /\ cfg.n = <<8, 8, 8>>
  /\ probe.block = <<0, 1, 1>>
  /\ probe.count = 1 + 8

PeriodicThree ==
  /\ cfg.periodic
  /\ \A k \in 1 .. 3 : cfg.nb[k] >= 3 /\ cfg.n[k] > 1

\* C10: in a periodic domain with at least 3 blocks along every axis and more
\* than one cell per axis, every block's quorum is 7 with face-only refresh,
\* 19 with face and edge refresh, 27 with face, edge and corner refresh.
C10_PeriodicQuorum ==
  (Probed /\ PeriodicThree) =>
     /\ cfg.rf = <<FALSE, FALSE, TRUE>> => probe.count = 7
     /\ cfg.rf = <<FALSE, TRUE, TRUE>>  => probe.count = 19
     /\ cfg.rf = <<TRUE, TRUE, TRUE>>   => probe.count = 27

C10_Witness ==
  /\ Probed
  /\ PeriodicThree
  /\ cfg.rf = <<FALSE, TRUE, TRUE>>
  /\ probe.block = <<2, 0, 1>>
  /\ probe.count = 19

\* the directions of the faces the probed refresh() sent
SentDirs == { Neg(m.f) : m \in probe.sends }

\* C11: if the cell count along an axis is 1, no direction with a nonzero
\* component along that axis is active, for every block, periodic setting and
\* refresh class: refresh() sends no face for one and count_refresh_() counts
\* none (the count stays within the directions along the other axes).
C11_SingleCellAxisInactive ==
  Probed =>
    /\ \A k \in 1 .. 3 : cfg.n[k] = 1 => \A d \in SentDirs : d[k] = 0
    /\ probe.count <= 1 + Cardinality({ d \in Dirs :
                             ClassEnabled(d) /\ \A k \in 1 .. 3 : cfg.n[k] = 1 => d[k] = 0 })

\* a periodic domain with one cell along y and every class on
C11_Witness ==
  /\ Probed
  /\ cfg.n = <<8, 1, 8>>
  /\ cfg.periodic
  /\ cfg.rf = <<TRUE, TRUE, TRUE>>
  /\ cfg.nb = <<2, 3, 2>>
  /\ probe.count = 9
  /\ Cardinality(SentDirs) = 8

IsCorner(b) == \A k \in 1 .. 3 : b[k] = 0 \/ b[k] = cfg.nb[k] - 1

IsInterior(b) == \A k \in 1 .. 3 : 0 < b[k] /\ b[k] < cfg.nb[k] - 1

CornerProbed == Probed /\ ~ cfg.periodic /\ IsCorner(probe.block)

\* C12 as stated: in every non-periodic domain with an interior block, and
\* for every refresh-class setting, a corner block has a strictly smaller
\* active-direction set and quorum than an interior block.
C12_CornerStrictlySmaller ==
  CornerProbed =>
    \A i \in Blocks :
       IsInterior(i) =>
          /\ probe.count < count_refresh_(i)
          /\ SentDirs \subseteq RefreshDirs(i) /\ SentDirs # RefreshDirs(i)

\* C12 amended: the corner block's set and quorum are strictly smaller
\* whenever the interior block's active-direction set is not empty; when it
\* is empty both sets are empty and both quorums are 1.
C12_CornerSmallerWhenActive ==
  CornerProbed =>
    \A i \in Blocks :
       IsInterior(i) =>
          IF RefreshDirs(i) # {}
          THEN /\ probe.count < count_refresh_(i)
               /\ SentDirs \subseteq RefreshDirs(i) /\ SentDirs # RefreshDirs(i)
          ELSE /\ probe.count = 1 /\ count_refresh_(i) = 1
               /\ SentDirs = {}

\* the upper corner of a 3x3x3 domain with every class on: 7 directions
\* against the 26 of the interior block
C12_Witness ==
  /\ CornerProbed
  /\ cfg.nb = <<3, 3, 3>>
  /\ probe.block = <<2, 2, 2>>
  /\ probe.count = 8
  /\ count_refresh_(<<1, 1, 1>>) = 27

\* C19: the index a face is addressed to is, on each axis, the sender's index
\* plus the direction component, wrapped modulo the block count when the
\* domain is periodic; when it is not periodic no face is sent for a
\* direction whose target would fall outside the domain.  Every destination
\* lies inside the domain extents.
C19_DestinationIndex ==
  Probed =>
    /\ \A m \in probe.sends :
         \A k \in 1 .. 3 :
            LET target == probe.block[k] + Neg(m.f)[k]
            IN  /\ m.to[k] \in 0 .. cfg.nb[k] - 1
                /\ m.to[k] = IF cfg.periodic THEN target % cfg.nb[k] ELSE target
    /\ ~ cfg.periodic =>
         \A d \in SentDirs :
            \A k \in 1 .. 3 : probe.block[k] + d[k] \in 0 .. cfg.nb[k] - 1

\* a face sent across the periodic boundary: from x index 0 down to index 2
C19_Witness ==
  /\ Probed
  /\ cfg.periodic
  /\ cfg.nb[1] = 3
  /\ probe.block[1] = 0
  /\ \E m \in probe.sends : m.f = <<1, 0, 0>> /\ m.to[1] = 2

\* ------------------------------------------------------------- end-to-end scenario
\* The 2x2x2 periodic domain with 8 cells per axis and face-only refresh,
\* run by the handlers of Spec under one delivery discipline: entry methods
\* of the same kind are delivered in array-index order and a ghost face is
\* delivered as soon as it is in flight, so faces reach blocks that have not
\* computed yet and blocks prepare the next cycle while others still compute.
\* The candidate timesteps of the blocks are free; a block asks to stop
\* exactly when its time has reached the stop time.
E2EConfig == Cfg(<<2, 2, 2>>, <<8, 8, 8>>, TRUE, <<FALSE, FALSE, TRUE>>)

InitE2E == particle = << >> /\ Constructed(E2EConfig)

\* linear index of a block in the chare array
ArrayIndex(b) == (b[1] * cfg.nb[2] + b[2]) * cfg.nb[3] + b[3]

FaceIndex(f) == (f[1] + 1) * 9 + (f[2] + 1) * 3 + (f[3] + 1)

FirstBlock(S, b) == \A a \in S : ArrayIndex(b) <= ArrayIndex(a)

FirstFace(m) ==
  \A o \in msgs :
     \/ ArrayIndex(m.to) < ArrayIndex(o.to)
     \/ ArrayIndex(m.to) = ArrayIndex(o.to) /\ FaceIndex(m.f) <= FaceIndex(o.f)

\* Stopping::complete(cycle_, time_) of the scenario: the stop time is reached
StopAtStopTime ==
  \A b \in Blocks :
     \A i \in 1 .. Len(contribs'[b]) :
        i > Len(contribs[b]) => (contribs'[b][i][2] = B2N(time_'[b] >= StopTime))

NextE2E ==
  \/ \E b \in Blocks :
        /\ FirstBlock({ a \in Blocks : ~ started[a] }, b)
        /\ Start(b)
        /\ StopAtStopTime
  \/ Reduce
  \/ \E m \in pout :
        /\ FirstBlock({ o.to : o \in pout }, m.to)
        /\ p_output(m)
  \/ \E m \in pcomp :
        /\ msgs = {}
        /\ FirstBlock({ o.to : o \in pcomp }, m.to)
        /\ p_compute(m)
        /\ StopAtStopTime
  \/ \E m \in msgs :
        /\ FirstFace(m)
        /\ Deliver_x_refresh(m)
        /\ StopAtStopTime

SpecE2E == InitE2E /\ [][NextE2E]_vars

Incoming(b) == UNION { { m \in RefreshSends(a, 0) : m.to = b } : a \in Blocks }

\* C29: in one exchange round the tags of the non-empty faces a block
\* receives are exactly its active-direction set, each tag once: no ghost
\* face is written twice and none of the active ones is left unwritten, also
\* when one sender is the neighbour in two opposite directions.
C29_TagsAreActiveSet ==
  Probed =>
    LET in == Incoming(probe.block)
    IN  /\ { m.f : m \in in } = ActiveSet(probe.block)
        /\ Cardinality(in) = Cardinality(ActiveSet(probe.block))
        /\ \A m \in in : m.n # 0
        /\ probe.count = Cardinality(in) + 1

\* two blocks along the periodic x axis: the other block sends both the
\* lower and the upper x face of the probed block
C29_Witness ==
  /\ Probed
  /\ cfg.periodic
  /\ cfg.nb[1] = 2
  /\ cfg.n[1] = 8
  /\ \E m1 \in Incoming(probe.block) :
        \E m2 \in Incoming(probe.block) :
           /\ m1.from = m2.from
           /\ m1.from # probe.block
           /\ m1.f = <<1, 0, 0>>
           /\ m2.f = <<-1, 0, 0>>

\* ------------------------------------------------------------- lock step
\* C31: in every reachable state the cycle counters of any two blocks of the
\* domain differ by at most 1.
C31_CyclesWithinOne ==
  \A a \in Blocks : \A b \in Blocks : abs(cycle_[a] - cycle_[b]) <= 1

\* in a domain of three blocks one block has computed its second cycle while
\* another one has not yet
C31_Witness ==
  /\ Cardinality(Blocks) = 3
  /\ \E a \in Blocks : \E b \in Blocks : cycle_[a] = 2 /\ cycle_[b] = 1

\* C32: whenever a reduction completes, every block has exactly one
\* contribution in it, the block's cycle and time have not changed since it
\* contributed, and all blocks have the same cycle and the same time: a
\* Stopping policy that is a function of (cycle, time) gives the same local
\* stop flag on all blocks within one reduction.
C32_Step ==
  /\ \A b \in Blocks :
        (contribs[b] # << >> /\ Len(contribs'[b]) >= Len(contribs[b]))
           => (cycle_'[b] = cycle_[b] /\ time_'[b] = time_[b])
  /\ nred' = nred + 1 =>
        /\ \A b \in Blocks : Len(contribs[b]) = 1 /\ started[b]
        /\ \A a \in Blocks : \A b \in Blocks :
              /\ cycle_[a] = cycle_[b]
              /\ time_[a]  = time_[b]
              /\ (time_[a] >= StopTime \/ cycle_[a] >= MaxCycle)
                    = (time_[b] >= StopTime \/ cycle_[b] >= MaxCycle)

C32_SameCycleAndTime == [][C32_Step]_vars

\* the third reduction of a domain of more than one block has completed, the
\* blocks having computed two cycles and their time having advanced
C32_Witness ==
  /\ Cardinality(Blocks) > 1
  /\ nred = 3
  /\ \A b \in Blocks : cycle_[b] = 2 /\ time_[b] >= 2

\* ------------------------------------------------------------- self wrap
\* the axes (1..3) along which the periodic domain has one block and the
\* field block more than one cell
SelfWrapAxes == { k \in 1 .. 3 : is_periodic /\ cfg.nb[k] = 1 /\ cfg.n[k] > 1 }

\* the direction along axis k with sign s
UnitDir(k, s) == << IF k = 1 THEN s ELSE 0, IF k = 2 THEN s ELSE 0, IF k = 3 THEN s ELSE 0 >>

\* the x_refresh messages addressed to block b that are not yet delivered
Pending(b) == { m \in msgs : m.to = b }

\* C33: in a periodic domain with one block along an axis and more than one
\* cell along it, a block sends the faces of both directions of that axis to
\* itself, as two messages with opposite tags; its quorum counts both (with
\* the self call it is at least 3 and one more than the number of faces the
\* block sends); and the quorum is reached in every round: once every block
\* has computed the block's cycle and nothing addressed to the block is in
\* flight, the block has had one quorum per cycle and its counter is back at 0.
C33_SelfWrapQuorum ==
  \A k \in SelfWrapAxes : \A b \in Blocks :
     refresh_face(2) =>
        /\ \A s \in {-1, 1} :
              /\ UnitDir(k, s) \in RefreshDirs(b)
              /\ NeighborIndex(b, UnitDir(k, s)) = b
              /\ \E m \in RefreshSends(b, cycle_[b]) :
                    m.to = b /\ m.from = b /\ m.f = UnitDir(k, -s) /\ m.n # 0
        /\ Cardinality({ m \in RefreshSends(b, cycle_[b]) :
                           m.to = b /\ m.f \in { UnitDir(k, -1), UnitDir(k, 1) } }) = 2
        /\ SyncStop(b) = 1 + Cardinality(RefreshDirs(b))
        /\ SyncStop(b) >= 3
        /\ narrive[b] = nquorum[b] * SyncStop(b) + sync[b]
        /\ sync[b] < SyncStop(b)
        /\ ((\A a \in Blocks : cycle_[a] = cycle_[b]) /\ Pending(b) = {})
              => (nquorum[b] = cycle_[b] /\ sync[b] = 0)

\* a block that has another block as its neighbour along x and itself as its
\* neighbour along y has completed two exchange rounds, each with both of its
\* own faces among the arrivals
C33_Witness ==
  /\ SelfWrapAxes # {}
  /\ Cardinality(Blocks) = 2
  /\ \E b \in Blocks :
        /\ cycle_[b] = 2
        /\ nquorum[b] = 2
        /\ Pending(b) = {}
        /\ \E k \in SelfWrapAxes :
              /\ ghost[b][UnitDir(k, 1)]  = FieldFace_load(b, UnitDir(k, -1), 2)
              /\ ghost[b][UnitDir(k, -1)] = FieldFace_load(b, UnitDir(k, 1), 2)

\* ------------------------------------------------------------- particle specification
\* ParticleDescr (src/src/Cello/data_ParticleDescr.cpp): particle types, and
\* per type the attribute sizes and offsets.  Sizes are held in a
\* std::vector<char>; whether char is signed is fixed by the build.  Names
\* are left out: a type and an attribute are known by their index.  Indices
\* are 0-based as in the source; sequence positions are index + 1.

\* values passed as attribute_bytes to new_attribute: powers of two
AttributeBytes == {1, 2, 8, 128, 256}

\* C++ integer division and remainder (truncation toward zero), b # 0
CDiv(a, b) ==
  IF (a >= 0) = (b > 0) THEN abs(a) \div abs(b) ELSE 0 - (abs(a) \div abs(b))

CMod(a, b) == a - b * CDiv(a, b)

\* conversion of an int to char, as push_back on a std::vector<char> does
ToChar(x, char_signed) == IF char_signed THEN ((x + 128) % 256) - 128 ELSE x % 256

\* no object has been unpacked from the descriptor
NoCopy == [present |-> FALSE]

\* ParticleDescr::ParticleDescr : the vectors are empty, batch_size_(1).
\* declared (the sizes new_attribute was called with), failed and unpacked
\* (the object pup has unpacked from this one) are not members of the class.
ParticleDescr_ctor(char_signed) ==
  [char_signed       |-> char_signed,
   attribute_interleaved_ |-> << >>,
   attribute_bytes_  |-> << >>,
   attribute_offset_ |-> << >>,
   batch_size_       |-> 1,
   declared          |-> << >>,
   failed            |-> FALSE,
   unpacked          |-> NoCopy]

num_types == Len(particle.attribute_bytes_)

num_attributes(it) == Len(particle.attribute_bytes_[it + 1])

Types == 0 .. num_types - 1

Attributes(it) == 0 .. num_attributes(it) - 1

TotalAttributes ==
  LET RECURSIVE Sum(_)
      Sum(i) == IF i = 0 THEN 0 ELSE Len(particle.attribute_bytes_[i]) + Sum(i - 1)
  IN  Sum(num_types)

\* ParticleDescr::attribute_bytes(it, ia)
attribute_bytes_of(it, ia) == particle.attribute_bytes_[it + 1][ia + 1]

\* ParticleDescr::attribute_offset(it, ia)
attribute_offset(it, ia) == particle.attribute_offset_[it + 1][ia + 1]

\* ParticleDescr::interleaved(it)
interleaved(it) == particle.attribute_interleaved_[it + 1]

\* the loop of ParticleDescr::attribute_bytes(it): sum and max of the sizes
RECURSIVE SumMax(_, _, _, _)
SumMax(it, ia, sum, max) ==
  IF ia >= num_attributes(it) THEN << sum, max >>
  ELSE LET b == attribute_bytes_of(it, ia)
       IN  SumMax(it, ia + 1, sum + b, IF b > max THEN b ELSE max)

\* ParticleDescr::attribute_bytes(it): ((sum-1)/max+1)*max; the outcomes of a
\* division by zero are left open
attribute_bytes(it) ==
  LET sm  == SumMax(it, 0, 0, -1)
      sum == sm[1]
      max == sm[2]
  IN  IF max = 0 THEN { -1, 0, 1 } ELSE { (CDiv(sum - 1, max) + 1) * max }

\* ParticleDescr::stride(it, ia): the values the call can return; the
\* outcomes of a division by zero are left open
stride(it, ia) ==
  IF interleaved(it)
  THEN IF attribute_bytes_of(it, ia) = 0
       THEN { -1, 0, 1 }
       ELSE { CDiv(n, attribute_bytes_of(it, ia)) : n \in attribute_bytes(it) }
  ELSE { 1 }

InitParticle ==
  /\ Constructed(Cfg(<<1, 1, 1>>, <<1, 1, 1>>, FALSE, <<FALSE, FALSE, FALSE>>))
  /\ \E char_signed \in BOOLEAN : particle = ParticleDescr_ctor(char_signed)

ParticleFrame ==
  UNCHANGED << cfg, cycle_, time_, dt_, sync, msgs, contribs, pout, pcomp, checkin,
               sim, exited, started, nprep, nres, nquorum, narrive, ghost, enforced,
               calls, nsent, sentAtPrepare, crashed, nred, redhist, probe >>

\* ParticleDescr::new_type
new_type ==
  /\ ~ particle.failed
  /\ ~ particle.unpacked.present
  /\ num_types < MaxTypes
  /\ particle' = [particle EXCEPT !.attribute_interleaved_ = Append(@, FALSE),
                                  !.attribute_bytes_  = Append(@, << >>),
                                  !.attribute_offset_ = Append(@, << >>),
                                  !.declared          = Append(@, << >>)]
  /\ ParticleFrame

\* ParticleDescr::set_interleaved
set_interleaved(it, v) ==
  /\ ~ particle.failed
  /\ ~ particle.unpacked.present
  /\ particle' = [particle EXCEPT !.attribute_interleaved_[it + 1] = v]
  /\ ParticleFrame

\* ParticleDescr::new_attribute : the size goes into the char vector; the
\* offset follows the previous attribute and is moved up to a multiple of
\* attribute_bytes.  For a type that is not interleaved the ASSERT
\* "Non-interleaved particles not implemented" ends the run.
new_attribute(it, bytes) ==
  /\ ~ particle.failed
  /\ ~ particle.unpacked.present
  /\ TotalAttributes < MaxAttrs
  /\ LET ia     == num_attributes(it)
         stored == ToChar(bytes, particle.char_signed)
         offset0 == IF ia > 0
                    THEN attribute_offset(it, ia - 1) + attribute_bytes_of(it, ia - 1)
                    ELSE 0
         align  == CMod(offset0, bytes)
         offset == IF align # 0 THEN offset0 + (bytes - align) ELSE offset0
     IN  IF interleaved(it)
         THEN particle' = [particle EXCEPT !.attribute_bytes_[it + 1]  = Append(@, stored),
                                           !.attribute_offset_[it + 1] = Append(@, offset),
                                           !.declared[it + 1]          = Append(@, bytes)]
         ELSE particle' = [particle EXCEPT !.failed = TRUE]
  /\ ParticleFrame

\* values passed to set_batch_size
BatchSizes == {1, 2}

\* ParticleDescr::set_batch_size
set_batch_size(mb) ==
  /\ ~ particle.failed
  /\ ~ particle.unpacked.present
  /\ particle' = [particle EXCEPT !.batch_size_ = mb]
  /\ ParticleFrame

\* ParticleDescr::pup on a packing PUP::er : the members written to the
\* buffer.  type_name_, type_index_, attribute_name_ and attribute_index_
\* are the positions in the two vectors.
pup_pack(p) ==
  [attribute_bytes_  |-> p.attribute_bytes_,
   attribute_offset_ |-> p.attribute_offset_]

\* ParticleDescr::pup on an unpacking PUP::er : the members of q read from
\* the buffer; the other members of q keep their value
pup_unpack(q, buffer) ==
  [q EXCEPT !.attribute_bytes_  = buffer.attribute_bytes_,
            !.attribute_offset_ = buffer.attribute_offset_]

\* the descriptor is packed when its set-up is complete, and unpacked into a
\* freshly constructed ParticleDescr
pup ==
  /\ ~ particle.failed
  /\ ~ particle.unpacked.present
  /\ particle' = [particle EXCEPT !.unpacked =
                     [present |-> TRUE,
                      descr   |-> pup_unpack(ParticleDescr_ctor(particle.char_signed),
                                             pup_pack(particle))]]
  /\ ParticleFrame

NextParticle ==
  \/ new_type
  \/ \E it \in Types : \E v \in BOOLEAN : set_interleaved(it, v)
  \/ \E it \in Types : \E bytes \in AttributeBytes : new_attribute(it, bytes)
  \/ \E mb \in BatchSizes : set_batch_size(mb)
  \/ pup

SpecParticle == InitParticle /\ [][NextParticle]_vars

\* the size attribute ia of type it was created with
DeclaredBytes(it, ia) == particle.declared[it + 1][ia + 1]

\* C25: for an interleaved type with power-of-two attribute sizes, after
\* any sequence of new_attribute calls every offset is a multiple of the
\* attribute's size, the first offset is 0, and attributes do not overlap:
\* each offset is at least the previous offset plus the previous size.
C25_OffsetsAligned ==
  \A it \in Types :
     interleaved(it) =>
        \A ia \in Attributes(it) :
           /\ CMod(attribute_offset(it, ia), DeclaredBytes(it, ia)) = 0
           /\ ia = 0 => attribute_offset(it, ia) = 0
           /\ ia > 0 => attribute_offset(it, ia)
                           >= attribute_offset(it, ia - 1) + DeclaredBytes(it, ia - 1)

\* the same for sizes a char holds in every build (at most 127): offsets are
\* aligned, start at 0 and do not overlap
OffsetsAlignedInRange ==
  \A it \in Types :
     (interleaved(it) /\ \A ia \in Attributes(it) : DeclaredBytes(it, ia) <= 127) =>
        \A ia \in Attributes(it) :
           /\ CMod(attribute_offset(it, ia), DeclaredBytes(it, ia)) = 0
           /\ ia = 0 => attribute_offset(it, ia) = 0
           /\ ia > 0 => attribute_offset(it, ia)
                           >= attribute_offset(it, ia - 1) + DeclaredBytes(it, ia - 1)

\* C26: for an interleaved type with power-of-two attribute sizes
\* attribute_bytes(it) is evenly divisible by attribute_bytes(it, ia) for
\* every attribute, so stride(it, ia) has no remainder; for a type that is
\* not interleaved stride is 1.
C26_StrideExact ==
  \A it \in Types :
     \A ia \in Attributes(it) :
        IF interleaved(it)
        THEN /\ attribute_bytes_of(it, ia) # 0
             /\ \A n \in attribute_bytes(it) :
                   /\ CMod(n, attribute_bytes_of(it, ia)) = 0
                   /\ stride(it, ia) = { CDiv(n, attribute_bytes_of(it, ia)) }
        ELSE stride(it, ia) = { 1 }

\* the same for sizes a char holds in every build (at most 127)
StrideExactInRange ==
  \A it \in Types :
     (\A ia \in Attributes(it) : DeclaredBytes(it, ia) <= 127) =>
        \A ia \in Attributes(it) :
           IF interleaved(it)
           THEN /\ attribute_bytes_of(it, ia) = DeclaredBytes(it, ia)
                /\ \A n \in attribute_bytes(it) :
                      /\ CMod(n, attribute_bytes_of(it, ia)) = 0
                      /\ stride(it, ia) = { CDiv(n, attribute_bytes_of(it, ia)) }
           ELSE stride(it, ia) = { 1 }

\* C34: for an interleaved type with power-of-two attribute sizes,
\* attribute_bytes(it), the bytes allocated per particle, is at least
\* attribute_offset(it, ia) + attribute_bytes(it, ia) for every attribute and
\* every order of creation: every attribute lies inside one particle's
\* record.  Stated for sizes a char holds in every build (at most 127), where
\* the stored size is the size the attribute was created with.
C34_AttributesInsideRecord ==
  \A it \in Types :
     (interleaved(it) /\ \A ia \in Attributes(it) : DeclaredBytes(it, ia) <= 127) =>
        \A ia \in Attributes(it) :
           \A n \in attribute_bytes(it) :
              n >= attribute_offset(it, ia) + attribute_bytes_of(it, ia)

\* what the accessors of descriptor q report: num_types() and
\* num_attributes(it) (the lengths), attribute_bytes(it, ia),
\* attribute_offset(it, ia), interleaved(it) and batch_size().  interleaved
\* is attribute_interleaved_.at(it): the set holding the value, or the empty
\* set where at() throws std::out_of_range.
Report(q) ==
  [bytes       |-> q.attribute_bytes_,
   offsets     |-> q.attribute_offset_,
   interleaved |-> [it \in 0 .. Len(q.attribute_bytes_) - 1 |->
                      IF it < Len(q.attribute_interleaved_)
                      THEN { q.attribute_interleaved_[it + 1] }
                      ELSE {}],
   batch_size  |-> q.batch_size_]

\* C35: packing a ParticleDescr with pup and unpacking it into a freshly
\* constructed ParticleDescr preserves everything its accessors report: the
\* types, attributes, sizes and offsets, and also interleaved(it) for every
\* type and batch_size().
C35_PupRoundTrip ==
  particle.unpacked.present => Report(particle.unpacked.descr) = Report(particle)

\* the members pup does write are preserved by the round trip: the types,
\* their attributes, the sizes and the offsets
PupKeepsPackedMembers ==
  particle.unpacked.present =>
     /\ Report(particle.unpacked.descr).bytes   = Report(particle).bytes
     /\ Report(particle.unpacked.descr).offsets = Report(particle).offsets

=============================================================================
